---- MODULE Spec2Model ----
(***************************************************************************)
(* Model of bdd_feature_generator.py: the scenario generation and step     *)
(* reconciliation pipeline run by main().                                  *)
(*                                                                         *)
(* A Python str is modelled as a sequence of one-character strings, so     *)
(* that formatting (f-strings, join), parsing (splitlines, strip, the      *)
(* regular expressions) and the file contents they produce and read back   *)
(* are computed character by character.  A dict is a function whose domain *)
(* is the set of keys present; a directory is a function from file names   *)
(* to file contents.                                                       *)
(***************************************************************************)
EXTENDS Integers, Sequences, FiniteSets, TLC

VARIABLES featureDir, stepDefDir, lastRun, stubsWritten, call

vars == <<featureDir, stepDefDir, lastRun, stubsWritten, call>>

(***************************************************************************)
(* Bounds of the model.                                                    *)
(***************************************************************************)
\* main() is run only while all runs together append no more stubs than this.
MaxStubsWritten == 6
\* Longest list of validation / exception / service-call labels composed.
MaxLabels == 2
\* Longest free text of a step line handed to generate_java_step_def.
MaxTextLen == 4
\* Longest free text between the keyword and the placeholder of a step line.
MaxPrefixLen == 2

(***************************************************************************)
(* Python built-ins on str, list and dict.                                 *)
(***************************************************************************)
Range(s) == {s[i] : i \in DOMAIN s}

Min(S) == CHOOSE x \in S : \A y \in S : x <= y

Max(S) == CHOOSE x \in S : \A y \in S : y <= x

\* str.isspace() for the characters that occur in the model
Whitespace == {" ", "\t", "\n"}

LowerCase == <<"a","b","c","d","e","f","g","h","i","j","k","l","m","n","o","p","q","r","s","t","u","v","w","x","y","z">>

UpperCase == <<"A","B","C","D","E","F","G","H","I","J","K","L","M","N","O","P","Q","R","S","T","U","V","W","X","Y","Z">>

Digits == <<"0","1","2","3","4","5","6","7","8","9">>

\* the character class [a-zA-Z0-9]
IsAlnum(c) == c \in Range(LowerCase) \cup Range(UpperCase) \cup Range(Digits)

\* str.lower() of one character
LowerChar(c) ==
    IF c \in Range(UpperCase)
    THEN LowerCase[CHOOSE i \in DOMAIN UpperCase : UpperCase[i] = c]
    ELSE c

\* str.lower()
lower(s) == [i \in DOMAIN s |-> LowerChar(s[i])]

\* str.startswith(p)
startswith(s, p) == Len(s) >= Len(p) /\ SubSeq(s, 1, Len(p)) = p

\* str.endswith(p)
endswith(s, p) == Len(s) >= Len(p) /\ SubSeq(s, Len(s) - Len(p) + 1, Len(s)) = p

\* str.strip()
strip(s) ==
    LET keep == {i \in DOMAIN s : s[i] \notin Whitespace}
    IN  IF keep = {} THEN << >> ELSE SubSeq(s, Min(keep), Max(keep))

\* str.splitlines() of the part of s from index from on; the only line
\* boundary that occurs in the model is "\n"
RECURSIVE SplitFrom(_, _)
SplitFrom(s, from) ==
    IF from > Len(s) THEN << >>
    ELSE LET nls == {i \in from..Len(s) : s[i] = "\n"}
         IN  IF nls = {} THEN <<SubSeq(s, from, Len(s))>>
             ELSE <<SubSeq(s, from, Min(nls) - 1)>> \o SplitFrom(s, Min(nls) + 1)

splitlines(s) == SplitFrom(s, 1)

\* sep.join(lines)
RECURSIVE join(_, _)
join(sep, lines) ==
    IF lines = << >> THEN << >>
    ELSE IF Len(lines) = 1 THEN lines[1]
    ELSE lines[1] \o sep \o join(sep, Tail(lines))

\* the concatenation of a list of lists
RECURSIVE Flatten(_)
Flatten(ss) == IF ss = << >> THEN << >> ELSE ss[1] \o Flatten(Tail(ss))

\* key in d
HasKey(d, k) == k \in DOMAIN d

\* d.get(k, [])
Get(d, k) == IF HasKey(d, k) THEN d[k] ELSE << >>

\* a file written in mode 'w'
WriteFile(dir, name, content) ==
    [n \in DOMAIN dir \cup {name} |-> IF n = name THEN content ELSE dir[n]]

\* a file written in mode 'a'
AppendFile(dir, name, text) ==
    [n \in DOMAIN dir \cup {name} |->
        IF n # name THEN dir[n]
        ELSE IF name \in DOMAIN dir THEN dir[name] \o text ELSE text]

\* a directory without entries
EmptyDir == [n \in {} |-> << >>]

(***************************************************************************)
(* scenario_for_endpoint                                                   *)
(***************************************************************************)
WhenLine == <<" "," "," "," ","W","h","e","n"," ","t","h","e"," ","A","P","I"," ","i","s"," ","c","a","l","l","e","d">>

PositiveScenario(endpoint) ==
    << <<" "," ","S","c","e","n","a","r","i","o",":"," ","S","u","c","c","e","s","s","f","u","l"," ","c","a","l","l"," ","t","o"," ">> \o endpoint.name,
       <<" "," "," "," ","G","i","v","e","n"," ","v","a","l","i","d"," ","i","n","p","u","t"," ","f","o","r"," ">> \o endpoint.name,
       WhenLine,
       <<" "," "," "," ","T","h","e","n"," ","t","h","e"," ","r","e","s","p","o","n","s","e"," ","s","h","o","u","l","d"," ","i","n","d","i","c","a","t","e"," ","s","u","c","c","e","s","s">>,
       << >> >>

ValidationScenario(v) ==
    << <<" "," ","S","c","e","n","a","r","i","o",":"," ","V","a","l","i","d","a","t","i","o","n"," ","e","r","r","o","r"," ","-"," ">> \o v,
       <<" "," "," "," ","G","i","v","e","n"," ","i","n","v","a","l","i","d"," ","i","n","p","u","t"," ","t","h","a","t"," ","t","r","i","g","g","e","r","s"," ">> \o v,
       WhenLine,
       <<" "," "," "," ","T","h","e","n"," ","t","h","e"," ","r","e","s","p","o","n","s","e"," ","s","h","o","u","l","d"," ","i","n","d","i","c","a","t","e"," ","a"," ","v","a","l","i","d","a","t","i","o","n"," ","e","r","r","o","r"," ","f","o","r"," ">> \o v,
       << >> >>

ExceptionScenario(e) ==
    << <<" "," ","S","c","e","n","a","r","i","o",":"," ","E","x","c","e","p","t","i","o","n"," ","-"," ">> \o e,
       <<" "," "," "," ","G","i","v","e","n"," ","a"," ","s","i","t","u","a","t","i","o","n"," ","t","h","a","t"," ","c","a","u","s","e","s"," ">> \o e,
       WhenLine,
       <<" "," "," "," ","T","h","e","n"," ","t","h","e"," ","r","e","s","p","o","n","s","e"," ","s","h","o","u","l","d"," ","i","n","d","i","c","a","t","e"," ","a","n"," ","e","r","r","o","r"," ","f","o","r"," ">> \o e,
       << >> >>

DependencyScenario(c) ==
    << <<" "," ","S","c","e","n","a","r","i","o",":"," ","D","e","p","e","n","d","e","n","c","y"," ","c","a","l","l"," ","-"," ">> \o c,
       <<" "," "," "," ","G","i","v","e","n"," ","t","h","e"," ","A","P","I"," ","d","e","p","e","n","d","s"," ","o","n"," ">> \o c,
       WhenLine,
       <<" "," "," "," ","T","h","e","n"," ","t","h","e"," ","r","e","s","p","o","n","s","e"," ","s","h","o","u","l","d"," ","r","e","f","l","e","c","t"," ","t","h","e"," ","r","e","s","u","l","t"," ","o","f"," ">> \o c,
       << >> >>

\* the same text with the exception scenarios placed before the validation ones
scenario_for_endpoint_swapped(controller, endpoint, dtos, validations, exceptions, service_calls) ==
    join(<<"\n">>,
         << <<"F","e","a","t","u","r","e",":"," ">> \o endpoint.name \o <<" ","e","n","d","p","o","i","n","t"," ","i","n"," ">> \o controller.name, << >> >>
         \o PositiveScenario(endpoint)
         \o Flatten([i \in DOMAIN exceptions |-> ExceptionScenario(exceptions[i])])
         \o Flatten([i \in DOMAIN validations |-> ValidationScenario(validations[i])])
         \o Flatten([i \in DOMAIN service_calls |-> DependencyScenario(service_calls[i])]))

scenario_for_endpoint(controller, endpoint, dtos, validations, exceptions, service_calls) ==
    LET feature_lines ==
            << <<"F","e","a","t","u","r","e",":"," ">> \o endpoint.name \o <<" ","e","n","d","p","o","i","n","t"," ","i","n"," ">> \o controller.name, << >> >>
            \o PositiveScenario(endpoint)
            \o Flatten([i \in DOMAIN validations |-> ValidationScenario(validations[i])])
            \o Flatten([i \in DOMAIN exceptions |-> ExceptionScenario(exceptions[i])])
            \o Flatten([i \in DOMAIN service_calls |-> DependencyScenario(service_calls[i])])
    IN  join(<<"\n">>, feature_lines)

(***************************************************************************)
(* generate_bdd_features                                                   *)
(***************************************************************************)
\* the (controller, endpoint) pairs in the order the two loops visit them
EndpointPairs(analysis) ==
    LET controllers == Get(analysis, "controllers")
    IN  Flatten([i \in DOMAIN controllers |->
                    [j \in DOMAIN Get(controllers[i], "endpoints") |->
                        <<controllers[i], Get(controllers[i], "endpoints")[j]>>]])

FeatureFileName(controller, endpoint) ==
    controller.name \o <<"_">> \o endpoint.name \o <<".","f","e","a","t","u","r","e">>

\* The loop body for pairs[i..]: a missing 'name' raises KeyError on line 18,
\* which leaves the files written so far and ends the process.
RECURSIVE WriteFeatures(_, _, _, _)
WriteFeatures(analysis, pairs, i, acc) ==
    IF i > Len(pairs) THEN acc
    ELSE LET controller == pairs[i][1]
             endpoint == pairs[i][2]
         IN  IF ~HasKey(endpoint, "name") \/ ~HasKey(controller, "name")
             THEN [acc EXCEPT !.error = TRUE]
             ELSE LET feature_content ==
                          scenario_for_endpoint(controller, endpoint,
                                                Get(analysis, "dtos"),
                                                Get(analysis, "validations"),
                                                Get(analysis, "exceptions"),
                                                Get(endpoint, "service_calls"))
                      feature_file == FeatureFileName(controller, endpoint)
                  IN  WriteFeatures(analysis, pairs, i + 1,
                                    [dir |-> WriteFile(acc.dir, feature_file, feature_content),
                                     written |-> Append(acc.written, feature_file),
                                     error |-> FALSE])

\* the same loop reading analysis['controllers'] without a default
generate_bdd_features_strict(analysis, output_dir) ==
    IF ~HasKey(analysis, "controllers")
    THEN [dir |-> output_dir, written |-> << >>, error |-> TRUE]
    ELSE WriteFeatures(analysis, EndpointPairs(analysis), 1,
                       [dir |-> output_dir, written |-> << >>, error |-> FALSE])

\* output_dir is the directory's content before the call; the result holds its
\* content afterwards, the files written and whether an exception was raised
generate_bdd_features(analysis, output_dir) ==
    WriteFeatures(analysis, EndpointPairs(analysis), 1,
                  [dir |-> output_dir, written |-> << >>, error |-> FALSE])

(***************************************************************************)
(* extract_steps_from_feature                                              *)
(***************************************************************************)
Given == <<"G","i","v","e","n">>

When == <<"W","h","e","n">>

Then == <<"T","h","e","n">>

Keywords == {Given, When, Then}

\* line.startswith("Given ") or line.startswith("When ") or line.startswith("Then ")
IsStepLine(line) == \E kw \in Keywords : startswith(line, kw \o <<" ">>)

\* The end of the match of \s+<[^>]+> that starts at index i of s, 0 when there
\* is none.  \s+ takes the whole run of whitespace at i (what follows a shorter
\* run is whitespace, not "<"); [^>]+ takes at least one character up to the
\* first ">".
ParamMatchEnd(s, i) ==
    IF i > Len(s) \/ s[i] \notin Whitespace THEN 0
    ELSE LET rest == {j \in i..Len(s) : s[j] \notin Whitespace}
             lt == IF rest = {} THEN 0 ELSE Min(rest)
             gts == {k \in (lt + 1)..Len(s) : s[k] = ">"}
         IN  IF lt = 0 \/ s[lt] # "<" \/ gts = {} \/ Min(gts) = lt + 1
             THEN 0
             ELSE Min(gts)

\* re.sub(r'\s+<[^>]+>', '', s) from index i on: matches are taken leftmost
\* first and do not overlap
RECURSIVE SubParamsFrom(_, _)
SubParamsFrom(s, i) ==
    IF i > Len(s) THEN << >>
    ELSE IF ParamMatchEnd(s, i) # 0 THEN SubParamsFrom(s, ParamMatchEnd(s, i) + 1)
    ELSE <<s[i]>> \o SubParamsFrom(s, i + 1)

\* a step taken over from the line as it stands, parameters kept
remove_params_kept(line) == line

\* re.sub(r'\s+<[^>]+>', '', line)
remove_params(line) == SubParamsFrom(line, 1)

extract_steps_from_feature(feature_content) ==
    LET lines == {strip(l) : l \in Range(splitlines(feature_content))}
    IN  {remove_params(line) : line \in {l \in lines : IsStepLine(l)}}

(***************************************************************************)
(* find_existing_step_defs                                                 *)
(***************************************************************************)
\* The match of @(Given|When|Then)\("([^"]+)"\) that starts at index i of
\* content, as [kw, pattern, end], end = 0 when there is none.  [^"]+ takes
\* the whole run up to the next double quote, which must be followed by ")".
AnnotationMatch(content, i) ==
    LET n == Len(content)
        kws == {kw \in Keywords :
                    /\ i + Len(kw) + 2 <= n
                    /\ SubSeq(content, i, i + Len(kw) + 2) = <<"@">> \o kw \o <<"(","\"">>}
    IN  IF kws = {} THEN [kw |-> << >>, pattern |-> << >>, end |-> 0]
        ELSE LET kw == CHOOSE k \in kws : TRUE
                 first == i + Len(kw) + 3
                 quotes == {q \in first..n : content[q] = "\""}
                 close == IF quotes = {} THEN 0 ELSE Min(quotes)
             IN  IF close > first /\ close + 1 <= n /\ content[close + 1] = ")"
                 THEN [kw |-> kw,
                       pattern |-> SubSeq(content, first, close - 1),
                       end |-> close + 1]
                 ELSE [kw |-> << >>, pattern |-> << >>, end |-> 0]

\* re.finditer over content from index from on: leftmost match first, the
\* next one sought after its end.  starts holds the indices where a match begins.
RECURSIVE FindIterFrom(_, _, _)
FindIterFrom(content, starts, from) ==
    LET left == {i \in starts : i >= from}
    IN  IF left = {} THEN << >>
        ELSE LET m == AnnotationMatch(content, Min(left))
             IN  <<m>> \o FindIterFrom(content, starts, m.end + 1)

\* re.finditer(r'@(Given|When|Then)\("([^"]+)"\)', content)
finditer(content) ==
    FindIterFrom(content,
                 {i \in DOMAIN content :
                     content[i] = "@" /\ AnnotationMatch(content, i).end # 0},
                 1)

\* the files os.walk visits that pass file.endswith('.java')
JavaFiles(step_def_dir) == {f \in DOMAIN step_def_dir : endswith(f, <<".","j","a","v","a">>)}

\* step_defs.add(match.group(2)): the pattern without its keyword
find_existing_step_defs(step_def_dir) ==
    UNION {{m.pattern : m \in Range(finditer(step_def_dir[f]))} :
           f \in JavaFiles(step_def_dir)}

(***************************************************************************)
(* generate_java_step_def                                                  *)
(***************************************************************************)
\* step.split(' ', 1)[0]
FirstToken(step) ==
    LET spaces == {i \in DOMAIN step : step[i] = " "}
    IN  IF spaces = {} THEN step ELSE SubSeq(step, 1, Min(spaces) - 1)

\* re.sub(r'[^a-zA-Z0-9]+', '_', text): one underscore for a whole run
RECURSIVE sub_non_alnum_runs(_)
sub_non_alnum_runs(text) ==
    IF text = << >> THEN << >>
    ELSE IF IsAlnum(text[1]) THEN <<text[1]>> \o sub_non_alnum_runs(Tail(text))
    ELSE IF Len(text) > 1 /\ ~IsAlnum(text[2]) THEN sub_non_alnum_runs(Tail(text))
    ELSE <<"_">> \o sub_non_alnum_runs(Tail(text))

\* re.sub(r'[^a-zA-Z0-9]', '_', text): one underscore for each character
RECURSIVE sub_non_alnum(_)
sub_non_alnum(text) ==
    IF text = << >> THEN << >>
    ELSE (IF IsAlnum(text[1]) THEN <<text[1]>> ELSE <<"_">>) \o sub_non_alnum(Tail(text))

StubHead == <<" "," "," "," ","@">>

StubOpen == <<"(","\"">>

StubMiddle == <<"\"",")","\n"," "," "," "," ","p","u","b","l","i","c"," ","v","o","i","d"," ">>

StubTail == <<"(",")"," ","{","\n"," "," "," "," "," "," "," "," ","/","/"," ","T","O","D","O",":"," ","I","m","p","l","e","m","e","n","t"," ","s","t","e","p","\n"," "," "," "," ","}","\n">>

generate_java_step_def(step) ==
    LET annotation == FirstToken(step)
        step_text == strip(SubSeq(step, Len(annotation) + 1, Len(step)))
        method_name == lower(sub_non_alnum(step_text))
    IN  StubHead \o annotation \o StubOpen \o step_text \o StubMiddle
            \o method_name \o StubTail

(***************************************************************************)
(* update_or_create_step_defs                                              *)
(***************************************************************************)
StepDefFile == <<"S","t","e","p","D","e","f","i","n","i","t","i","o","n","s",".","j","a","v","a">>

\* the union of the steps of the files os.listdir yields that end in .feature
AllSteps(feature_dir) ==
    UNION {extract_steps_from_feature(feature_dir[f]) :
           f \in {g \in DOMAIN feature_dir : endswith(g, <<".","f","e","a","t","u","r","e">>)}}

\* the orders in which iterating a set of str can yield its elements: the
\* order depends on the hashes of the strings, which differ from process to
\* process, so every order is possible
RECURSIVE IterationOrders(_)
IterationOrders(S) ==
    IF S = {} THEN {<< >>}
    ELSE UNION {{<<x>> \o rest : rest \in IterationOrders(S \ {x})} : x \in S}

\* what the loop over missing_steps writes when it visits them in this order
StubsText(order) ==
    Flatten([i \in DOMAIN order |-> generate_java_step_def(order[i]) \o <<"\n">>])

\* the file opened in mode 'w', which truncates it
write_stubs_truncating(step_def_dir, order) ==
    WriteFile(step_def_dir, StepDefFile, StubsText(order))

\* with open(step_def_file, 'a') as f: for step in missing_steps: f.write(...)
write_stubs(step_def_dir, order) ==
    AppendFile(step_def_dir, StepDefFile, StubsText(order))

\* The outcomes of the call: the store afterwards, the order in which the loop
\* visited missing_steps and the message printed, one outcome for each order
\* the set can be iterated in.
update_or_create_step_defs(feature_dir, step_def_dir) ==
    LET all_steps == AllSteps(feature_dir)
        existing_steps == find_existing_step_defs(step_def_dir)
        missing_steps == all_steps \ existing_steps
    IN  IF missing_steps = {}
        THEN {[dir |-> step_def_dir, order |-> << >>,
               all_steps |-> all_steps, existing_steps |-> existing_steps,
               missing_steps |-> missing_steps,
               report |-> [msg |-> "exist", n |-> 0]]}
        ELSE {[dir |-> write_stubs(step_def_dir, order), order |-> order,
               all_steps |-> all_steps, existing_steps |-> existing_steps,
               missing_steps |-> missing_steps,
               report |-> [msg |-> "added", n |-> Cardinality(missing_steps)]] :
              order \in IterationOrders(missing_steps)}

(***************************************************************************)
(* Inputs.                                                                 *)
(***************************************************************************)
\* all sequences over S of length at most n
SeqsUpTo(S, n) == UNION {[1..k -> S] : k \in 0..n}

\* {}
EmptyDoc == [k \in {} |-> << >>]

\* one controller with one endpoint; validations, exceptions and
\* service_calls are absent
PlainDoc ==
    [controllers |-> << [name |-> <<"O","r","d","e","r">>, endpoints |-> << [name |-> <<"c","r","e","a","t","e">>] >>] >>]

\* two endpoints of the same controller
TwoDoc ==
    [controllers |-> << [name |-> <<"O","r","d","e","r">>,
                         endpoints |-> << [name |-> <<"c","r","e","a","t","e">>], [name |-> <<"c","a","n","c","e","l">>] >>] >>]

\* a validation label that holds a quoted value
QuotedDoc ==
    [controllers |-> << [name |-> <<"O","r","d","e","r">>, endpoints |-> << [name |-> <<"c","r","e","a","t","e">>] >>] >>,
     validations |-> << <<"m","a","x"," ","\"","9","\"">> >>]

\* a controller without 'name'
NamelessDoc ==
    [controllers |-> << [endpoints |-> << [name |-> <<"c","r","e","a","t","e">>] >>] >>]

Docs == {EmptyDoc, PlainDoc, TwoDoc, QuotedDoc, NamelessDoc}

\* a hand-written store that registers the three steps of the positive
\* scenario of Order.create
PositiveStore ==
    [n \in {StepDefFile} |->
        <<"p","u","b","l","i","c"," ","c","l","a","s","s"," ","S","t","e","p","D","e","f","i","n","i","t","i","o","n","s"," ","{","\n">>
        \o <<" "," "," "," ","@","G","i","v","e","n","(","\"","v","a","l","i","d"," ","i","n","p","u","t"," ","f","o","r"," ","c","r","e","a","t","e","\"",")","\n"," "," "," "," ","p","u","b","l","i","c"," ","v","o","i","d"," ","v","a","l","i","d","I","n","p","u","t","(",")"," ","{","}","\n">>
        \o <<" "," "," "," ","@","W","h","e","n","(","\"","t","h","e"," ","A","P","I"," ","i","s"," ","c","a","l","l","e","d","\"",")","\n"," "," "," "," ","p","u","b","l","i","c"," ","v","o","i","d"," ","c","a","l","l","A","p","i","(",")"," ","{","}","\n">>
        \o <<" "," "," "," ","@","T","h","e","n","(","\"","t","h","e"," ","r","e","s","p","o","n","s","e"," ","s","h","o","u","l","d"," ","i","n","d","i","c","a","t","e"," ","s","u","c","c","e","s","s","\"",")","\n"," "," "," "," ","p","u","b","l","i","c"," ","v","o","i","d"," ","s","u","c","c","e","s","s","(",")"," ","{","}","\n">>
        \o <<"}","\n">>]

ComposeLabels == {<<"N","o","t","N","u","l","l">>, <<"m","a","x"," ","9">>}

ComposeEndpoints == {<<"c","r","e","a","t","e">>, <<"g","e","t","_","a","l","l">>}

TextChars == {"a", "B", " ", "-"}

PrefixChars == {"a", " ", "\"", "<"}

\* the contents of a placeholder: not empty, without ">"
PlaceholderContents == {<<"x">>, <<"y"," ","z">>, <<"<","w">>}

Suffixes == {<< >>, <<" ","b">>, <<">">>, <<" ","<","p",">"," ","c">>}

\* lines that do not start with a keyword and a space
NonStepLines == {<<" "," ","S","c","e","n","a","r","i","o",":"," ","G","i","v","e","n"," ","a"," ","<","x",">">>, <<"G","i","v","e","n","a"," ","<","x",">">>, <<" ">>, <<"A","n","d"," ","a"," ","<","x",">">>}

(***************************************************************************)
(* State.                                                                  *)
(*   featureDir    the output directory: file name -> content              *)
(*   stepDefDir    the step-definition directory: file name -> content     *)
(*   lastRun       what the last run of main() read, computed and printed  *)
(*   stubsWritten  the number of stubs appended by all runs so far         *)
(*   call          the last call of one function on its own: its           *)
(*                 arguments and its result                                *)
(***************************************************************************)
NoRun ==
    [ran |-> FALSE, doc |-> EmptyDoc, prev |-> << >>, error |-> FALSE,
     written |-> << >>, featuresBefore |-> EmptyDir, before |-> EmptyDir,
     all_steps |-> {}, existing_steps |-> {}, missing_steps |-> {},
     order |-> << >>, report |-> [msg |-> "none", n |-> 0]]

NoCall == [fn |-> "none", arg |-> << >>, result |-> << >>]

Init ==
    /\ featureDir = EmptyDir
    /\ stepDefDir \in {EmptyDir, PositiveStore}
    /\ lastRun = NoRun
    /\ stubsWritten = 0
    /\ call = NoCall

\* main() when generate_bdd_features raises: the process ends there
MainRaises(analysis) ==
    /\ LET gen == generate_bdd_features(analysis, featureDir)
       IN  /\ gen.error
           /\ featureDir' = gen.dir
           /\ lastRun' = [ran |-> TRUE, doc |-> analysis,
                          prev |-> IF lastRun.ran THEN <<lastRun.doc>> ELSE << >>,
                          error |-> TRUE, written |-> gen.written,
                          featuresBefore |-> featureDir, before |-> stepDefDir,
                          all_steps |-> {}, existing_steps |-> {},
                          missing_steps |-> {}, order |-> << >>,
                          report |-> [msg |-> "none", n |-> 0]]
    /\ UNCHANGED <<stepDefDir, stubsWritten, call>>

\* main(): generate_bdd_features, then update_or_create_step_defs on the
\* directory it wrote to, with one of the outcomes of its loop
Main(analysis) ==
    LET gen == generate_bdd_features(analysis, featureDir)
        missing == AllSteps(gen.dir) \ find_existing_step_defs(stepDefDir)
    IN  /\ ~gen.error
        /\ stubsWritten + Cardinality(missing) <= MaxStubsWritten
        /\ \E out \in update_or_create_step_defs(gen.dir, stepDefDir) :
             /\ featureDir' = gen.dir
             /\ stepDefDir' = out.dir
             /\ stubsWritten' = stubsWritten + Len(out.order)
             /\ lastRun' = [ran |-> TRUE, doc |-> analysis,
                            prev |-> IF lastRun.ran THEN <<lastRun.doc>> ELSE << >>,
                            error |-> FALSE, written |-> gen.written,
                            featuresBefore |-> featureDir, before |-> stepDefDir,
                            all_steps |-> out.all_steps,
                            existing_steps |-> out.existing_steps,
                            missing_steps |-> out.missing_steps,
                            order |-> out.order,
                            report |-> out.report]
             /\ UNCHANGED call

Next ==
    \/ \E analysis \in Docs : Main(analysis)
    \/ \E analysis \in Docs : MainRaises(analysis)

Spec == Init /\ [][Next]_vars

(***************************************************************************)
(* The functions on their own: each specification starts from no call and  *)
(* applies one function to inputs drawn from a bounded set.                *)
(***************************************************************************)
InitCall ==
    /\ featureDir = EmptyDir
    /\ stepDefDir = EmptyDir
    /\ lastRun = NoRun
    /\ stubsWritten = 0
    /\ call = NoCall

Compose(controller, endpoint, validations, exceptions, service_calls) ==
    /\ call.fn = "none"
    /\ call' = [fn |-> "scenario_for_endpoint",
                arg |-> [controller |-> controller, endpoint |-> endpoint,
                         validations |-> validations, exceptions |-> exceptions,
                         service_calls |-> service_calls],
                result |-> scenario_for_endpoint(controller, endpoint, << >>,
                                                 validations, exceptions, service_calls)]
    /\ UNCHANGED <<featureDir, stepDefDir, lastRun, stubsWritten>>

NextCompose ==
    \E e \in ComposeEndpoints :
        \E v \in SeqsUpTo(ComposeLabels, MaxLabels) :
            \E x \in SeqsUpTo(ComposeLabels, MaxLabels) :
                \E s \in SeqsUpTo(ComposeLabels, MaxLabels) :
                    Compose([name |-> <<"O","r","d","e","r">>], [name |-> e], v, x, s)

SpecCompose == InitCall /\ [][NextCompose]_vars

\* a feature text of two step lines that differ in the content of one
\* placeholder, and one line that is no step line
TwoLineText(arg) ==
    join(<<"\n">>,
         << <<" "," "," "," ">> \o arg.prefix \o <<"<">> \o arg.c1 \o <<">">> \o arg.suffix,
            <<" "," "," "," ">> \o arg.prefix \o <<"<">> \o arg.c2 \o <<">">> \o arg.suffix,
            arg.other >>)

Extract(arg) ==
    /\ call.fn = "none"
    /\ call' = [fn |-> "extract_steps_from_feature", arg |-> arg,
                result |-> extract_steps_from_feature(TwoLineText(arg))]
    /\ UNCHANGED <<featureDir, stepDefDir, lastRun, stubsWritten>>

NextExtract ==
    \E kw \in Keywords :
        \E w \in SeqsUpTo(PrefixChars, MaxPrefixLen) :
            \E c1 \in PlaceholderContents :
                \E c2 \in PlaceholderContents \ {c1} :
                    \E suffix \in Suffixes :
                        \E other \in NonStepLines :
                            Extract([prefix |-> kw \o <<" ">> \o w, c1 |-> c1, c2 |-> c2,
                                     suffix |-> suffix, other |-> other])

SpecExtract == InitCall /\ [][NextExtract]_vars

Stub(kw, text) ==
    /\ call.fn = "none"
    /\ call' = [fn |-> "generate_java_step_def",
                arg |-> [kw |-> kw, text |-> text],
                result |-> generate_java_step_def(kw \o <<" ">> \o text)]
    /\ UNCHANGED <<featureDir, stepDefDir, lastRun, stubsWritten>>

NextStub ==
    \E kw \in Keywords :
        \E text \in SeqsUpTo(TextChars, MaxTextLen) :
            Stub(kw, text)

SpecStub == InitCall /\ [][NextStub]_vars

(***************************************************************************)
(* Vocabulary of the properties.                                           *)
(***************************************************************************)
\* the keyword of a step line: its leading token
StepKeyword(step) == FirstToken(step)

\* the text of a step line after its keyword and one space
StepText(step) == SubSeq(step, Len(StepKeyword(step)) + 2, Len(step))

\* the (keyword, pattern) pairs of the registration clauses the index scan
\* finds in the store
RegisteredPairs(step_def_dir) ==
    UNION {{<<m.kw, m.pattern>> : m \in Range(finditer(step_def_dir[f]))} :
           f \in JavaFiles(step_def_dir)}

\* no two registration clauses of the store have the same keyword and pattern
NoDuplicateRegistration(step_def_dir) ==
    LET regs == [f \in JavaFiles(step_def_dir) |-> finditer(step_def_dir[f])]
    IN  \A f \in DOMAIN regs : \A g \in DOMAIN regs :
            \A i \in DOMAIN regs[f] : \A j \in DOMAIN regs[g] :
                (f # g \/ i # j)
                    => <<regs[f][i].kw, regs[f][i].pattern>>
                           # <<regs[g][j].kw, regs[g][j].pattern>>

\* the printable ASCII characters in code order (the backslash and the
\* backquote, which no step of the model holds, left out)
Ascii ==
    <<" ","!","\"","#","$","%","&","'","(",")","*","+",",","-",".","/","0","1","2","3","4","5","6","7","8","9",":",";","<","=",">","?","@","A","B","C","D","E","F","G","H","I","J","K","L","M","N","O","P","Q","R","S","T","U","V","W","X","Y","Z">>
    \o <<"[","]","^","_","a","b","c","d","e","f","g","h","i","j","k","l","m","n","o","p","q","r","s","t","u","v","w","x","y","z","{","|","}","~">>

Ord(c) == CHOOSE i \in DOMAIN Ascii : Ascii[i] = c

\* a = b, or a comes before b in lexicographic order
LexLeq(a, b) ==
    \/ a = b
    \/ \E k \in 1..(Len(b)) :
          /\ k - 1 <= Len(a)
          /\ SubSeq(a, 1, k - 1) = SubSeq(b, 1, k - 1)
          /\ (k > Len(a) \/ Ord(a[k]) < Ord(b[k]))

\* s comes no later than t when sorted by keyword, then by pattern
StepLeq(s, t) ==
    \/ StepKeyword(s) # StepKeyword(t) /\ LexLeq(StepKeyword(s), StepKeyword(t))
    \/ StepKeyword(s) = StepKeyword(t) /\ LexLeq(StepText(s), StepText(t))

\* sub occurs in s at index i
OccursAt(sub, s, i) == i + Len(sub) - 1 <= Len(s) /\ SubSeq(s, i, i + Len(sub) - 1) = sub

Occurs(sub, s) == \E i \in DOMAIN s : OccursAt(sub, s, i)

CountOccurrences(sub, s) == Cardinality({i \in DOMAIN s : OccursAt(sub, s, i)})

\* the names of the scenarios of a feature text, in the order of the text
ScenarioNames(lines) ==
    LET headers == SelectSeq(lines, LAMBDA l : startswith(l, <<" "," ","S","c","e","n","a","r","i","o",":"," ">>))
    IN  [k \in DOMAIN headers |-> SubSeq(headers[k], 13, Len(headers[k]))]

\* the keywords of the step lines of the k-th scenario of a feature text
ScenarioStepKeywords(lines, k) ==
    LET at == SelectSeq([i \in DOMAIN lines |-> i],
                        LAMBDA i : startswith(lines[i], <<" "," ","S","c","e","n","a","r","i","o",":"," ">>))
        last == IF k < Len(at) THEN at[k + 1] - 1 ELSE Len(lines)
        steps == SelectSeq(SubSeq(lines, at[k] + 1, last),
                           LAMBDA l : IsStepLine(strip(l)))
    IN  [i \in DOMAIN steps |-> FirstToken(strip(steps[i]))]

\* the scenario names the composer is to produce for these arguments
ExpectedScenarioNames(arg) ==
    << <<"S","u","c","c","e","s","s","f","u","l"," ","c","a","l","l"," ","t","o"," ">> \o arg.endpoint.name >>
    \o [i \in DOMAIN arg.validations |-> <<"V","a","l","i","d","a","t","i","o","n"," ","e","r","r","o","r"," ","-"," ">> \o arg.validations[i]]
    \o [i \in DOMAIN arg.exceptions |-> <<"E","x","c","e","p","t","i","o","n"," ","-"," ">> \o arg.exceptions[i]]
    \o [i \in DOMAIN arg.service_calls |-> <<"D","e","p","e","n","d","e","n","c","y"," ","c","a","l","l"," ","-"," ">> \o arg.service_calls[i]]

FeatureFilesOf(dir) == {f \in DOMAIN dir : endswith(f, <<".","f","e","a","t","u","r","e">>)}

Completed == lastRun.ran /\ ~lastRun.error

(***************************************************************************)
(* The properties.                                                         *)
(***************************************************************************)

\* C1: a run of main() that directly follows a completed run with the same
\* analysis document appends no stub: the store is left as the first run left it.
C1_SecondRunAppendsNothing ==
    (Completed /\ lastRun.prev = <<lastRun.doc>>)
        => (lastRun.order = << >> /\ stepDefDir = lastRun.before)

\* C2: in a completed run, an extracted step is left out of the missing steps
\* exactly when the store, as it was before the run, holds a registration whose
\* pattern is the step's text after its keyword.
C2_CoveredIffPatternRegistered ==
    Completed =>
        \A s \in lastRun.all_steps :
            (s \notin lastRun.missing_steps)
                <=> (\E r \in RegisteredPairs(lastRun.before) : r[2] = StepText(s))

\* C3: the feature text composed for an endpoint holds, in this order, the
\* positive scenario, one scenario for each validation label, one for each
\* exception label and one for each service call, each in input order, that
\* is 1 + N + M + K scenarios, and each scenario has the three steps Given,
\* When, Then.
C3_ScenarioSequence ==
    (call.fn = "scenario_for_endpoint") =>
        LET lines == splitlines(call.result)
            names == ScenarioNames(lines)
        IN  /\ names = ExpectedScenarioNames(call.arg)
            /\ Len(names) = 1 + Len(call.arg.validations) + Len(call.arg.exceptions)
                              + Len(call.arg.service_calls)
            /\ \A k \in DOMAIN names :
                   ScenarioStepKeywords(lines, k) = <<Given, When, Then>>

\* C3 witness: two validation labels in a given order, an exception label and
\* two service calls were composed.
C3_Witness ==
    /\ call.fn = "scenario_for_endpoint"
    /\ call.arg.validations = << <<"m","a","x"," ","9">>, <<"N","o","t","N","u","l","l">> >>
    /\ Len(call.arg.exceptions) = 1
    /\ Len(call.arg.service_calls) = 2
    /\ Len(ScenarioNames(splitlines(call.result))) = 6

\* C4: after a completed run, every step extracted from the feature files of
\* the feature directory is registered in the store under its keyword with its
\* text after the keyword as the pattern.
C4_EveryStepImplemented ==
    Completed =>
        \A s \in AllSteps(featureDir) :
            <<StepKeyword(s), StepText(s)>> \in RegisteredPairs(stepDefDir)

\* C5: the store never holds two registration clauses with the same keyword
\* and pattern, and a run appends no stub for a keyword and pattern the store
\* registered before the run.
C5_NoDuplicateImplementation ==
    /\ NoDuplicateRegistration(stepDefDir)
    /\ Completed =>
           \A i \in DOMAIN lastRun.order :
               <<StepKeyword(lastRun.order[i]), StepText(lastRun.order[i])>>
                   \notin RegisteredPairs(lastRun.before)

C7_EmptyDocumentFindsNoSteps ==
    (lastRun.ran /\ lastRun.doc = EmptyDoc) =>
        /\ ~lastRun.error
        /\ lastRun.written = << >>
        /\ lastRun.all_steps = {}
        /\ lastRun.order = << >>
        /\ stepDefDir = lastRun.before

\* C7, amended: a run on the empty analysis document whose output directory
\* held no .feature file before the run raises no error, writes no feature
\* file, finds no step and appends no stub.
C7_EmptyDocumentOnEmptyDirectory ==
    (lastRun.ran /\ lastRun.doc = EmptyDoc /\ FeatureFilesOf(lastRun.featuresBefore) = {}) =>
        /\ ~lastRun.error
        /\ lastRun.written = << >>
        /\ featureDir = lastRun.featuresBefore
        /\ lastRun.all_steps = {}
        /\ lastRun.order = << >>
        /\ lastRun.report = [msg |-> "exist", n |-> 0]
        /\ stepDefDir = lastRun.before

\* C7 witness: the empty document was run on an empty output directory with a
\* store that registers steps.
C7_Witness ==
    /\ lastRun.ran
    /\ lastRun.doc = EmptyDoc
    /\ lastRun.featuresBefore = EmptyDir
    /\ lastRun.before = PositiveStore
    /\ stepDefDir = PositiveStore

\* C8: a completed run with no missing step leaves the store as it was; one
\* with missing steps changes StepDefinitions.java alone, keeps its prior
\* content as a prefix, appends one stub for each missing step and reports the
\* number of stubs it appended.
C8_AppendOnlyWriter ==
    Completed =>
        IF lastRun.missing_steps = {}
        THEN stepDefDir = lastRun.before /\ lastRun.report.msg = "exist"
        ELSE LET old == IF StepDefFile \in DOMAIN lastRun.before
                        THEN lastRun.before[StepDefFile] ELSE << >>
                 new == stepDefDir[StepDefFile]
                 added == SubSeq(new, Len(old) + 1, Len(new))
             IN  /\ DOMAIN stepDefDir = DOMAIN lastRun.before \cup {StepDefFile}
                 /\ \A f \in DOMAIN lastRun.before \ {StepDefFile} :
                        stepDefDir[f] = lastRun.before[f]
                 /\ startswith(new, old)
                 /\ CountOccurrences(<<"/","/"," ","T","O","D","O",":"," ","I","m","p","l","e","m","e","n","t"," ","s","t","e","p">>, added)
                        = Cardinality(lastRun.missing_steps)
                 /\ CountOccurrences(<<"p","u","b","l","i","c"," ","v","o","i","d"," ">>, added)
                        = Cardinality(lastRun.missing_steps)
                 /\ \A s \in lastRun.missing_steps :
                        Occurs(generate_java_step_def(s) \o <<"\n">>, added)
                 /\ lastRun.report
                        = [msg |-> "added",
                           n |-> CountOccurrences(<<"/","/"," ","T","O","D","O",":"," ","I","m","p","l","e","m","e","n","t"," ","s","t","e","p">>, added)]

\* C8 witness: a run appended three stubs to a store that held text before.
C8_Witness ==
    /\ Completed
    /\ lastRun.before = PositiveStore
    /\ lastRun.report = [msg |-> "added", n |-> 3]
    /\ Len(stepDefDir[StepDefFile]) > Len(PositiveStore[StepDefFile])

\* C9: the stubs of a run are appended sorted by keyword, then by pattern.
C9_StubsInSortedOrder ==
    Completed =>
        \A i \in DOMAIN lastRun.order : \A j \in DOMAIN lastRun.order :
            i < j => StepLeq(lastRun.order[i], lastRun.order[j])

\* C10, as claimed: the identifier of the stub is the text after the keyword
\* and one space with every run of non-alphanumeric characters replaced by one
\* underscore, lowercased, and the stub registers the keyword with that text.
C10_IdentifierCollapsesRuns ==
    (call.fn = "generate_java_step_def") =>
        call.result = <<" "," "," "," ","@">> \o call.arg.kw \o <<"(","\"">> \o call.arg.text
                        \o <<"\"",")","\n"," "," "," "," ","p","u","b","l","i","c"," ","v","o","i","d"," ">>
                        \o lower(sub_non_alnum_runs(call.arg.text))
                        \o <<"(",")"," ","{","\n"," "," "," "," "," "," "," "," ","/","/"," ","T","O","D","O",":"," ","I","m","p","l","e","m","e","n","t"," ","s","t","e","p","\n"," "," "," "," ","}","\n">>

\* C10, amended: the stub registers the keyword with the text after the
\* keyword trimmed of surrounding whitespace, and its identifier is that
\* trimmed text with each non-alphanumeric character replaced by one
\* underscore, lowercased.
C10_IdentifierPerCharacter ==
    (call.fn = "generate_java_step_def") =>
        LET pattern == strip(call.arg.text)
            identifier == [i \in DOMAIN pattern |->
                              IF IsAlnum(pattern[i]) THEN LowerChar(pattern[i]) ELSE "_"]
        IN  call.result = <<" "," "," "," ","@">> \o call.arg.kw \o <<"(","\"">> \o pattern
                            \o <<"\"",")","\n"," "," "," "," ","p","u","b","l","i","c"," ","v","o","i","d"," ">> \o identifier
                            \o <<"(",")"," ","{","\n"," "," "," "," "," "," "," "," ","/","/"," ","T","O","D","O",":"," ","I","m","p","l","e","m","e","n","t"," ","s","t","e","p","\n"," "," "," "," ","}","\n">>

\* C10 witness: the stub of "Then a--B" was rendered, with pattern a--B and
\* identifier a__b.
C10_Witness ==
    /\ call.fn = "generate_java_step_def"
    /\ call.arg = [kw |-> Then, text |-> <<"a","-","-","B">>]
    /\ Occurs(<<"@","T","h","e","n","(","\"","a","-","-","B","\"",")">>, call.result)
    /\ Occurs(<<"p","u","b","l","i","c"," ","v","o","i","d"," ","a","_","_","b","(",")">>, call.result)
====
